---- MODULE Spec2Model ----
(***************************************************************************)
(* GPU ocean surface: the ping-pong height-field simulation of Ocean.jsx   *)
(* and the spectral pipeline of App.jsx, as state machines over the render *)
(* targets, the material uniforms and the frame callbacks, and the GLSL    *)
(* function phillips as an operator over a grid of wave vectors.           *)
(***************************************************************************)
EXTENDS Integers, Naturals, Sequences, FiniteSets

(* ------------------------------ bounds -------------------------------- *)
\* frame callbacks of Ocean.jsx's Ocean that may start (the clock's range)
MaxClock == 4
\* times the Ocean component of Ocean.jsx is mounted
MaxMounts == 2
\* wave vectors: components within MaxK grid units of zero, and MaxCoarse
\* further steps of CoarseStep units on either side
MaxK == 3
MaxCoarse == 3
CoarseStep == 100

VARIABLES
  mode,             \* the Ocean component the canvas hosts: "alternate" (Ocean.jsx)
                    \* or "spectral" (App.jsx)
  phase,            \* "init" (module loaded), "mounted", "unmounted"
  gen,              \* number of mounts so far; names the instance's objects
  meshRef,          \* meshRef.current is set (the ocean mesh)
  debugRef,         \* the debug mesh's ref is set (DebugPlane, DebugView)
  oceanMaterial,    \* oceanMaterial.uniforms
  debugMaterial,    \* debugMaterial.uniforms
  renderTarget,     \* gl's active render target
  glLog,            \* the passes gl.render has issued: [material, input, target, time]
  clock,            \* clock.getElapsedTime(), in ticks
  ran,              \* the useFrame subscribers that ran in the current frame
  frames,           \* Ocean frame callbacks completed since the mount
  allocated,        \* render targets and materials the component created so far
  disposeCount,     \* times dispose() was called, per resource
  \* ---- Ocean.jsx only ----
  fbos,             \* fbos.current: [read, write]
  heightmapTexture, \* the prop DebugPlane was rendered with
  simMaterial,      \* simMaterial.uniforms: [uTime, uPrevState]
  pc,               \* position inside Ocean's frame callback
  time,             \* the callback's local  const time
  swaps,            \* executions of the swap since the mount
  \* ---- App.jsx only ----
  texture,          \* the prop DebugView was rendered with
  quadMaterial,     \* computeQuad.material
  \* ---- one invocation of the Phillips fragment shader ----
  k,                \* the wave vector, in grid units of 1/Scale
  flush,            \* this GPU rounds a float below the normal range to zero
  P                 \* the value phillips(k) returned, NotRun before the call

sharedVars == <<mode, phase, gen, meshRef, debugRef, oceanMaterial, debugMaterial,
                renderTarget, glLog, clock, ran, frames, allocated, disposeCount>>
alternateVars == <<fbos, heightmapTexture, simMaterial, pc, time, swaps>>
spectralVars == <<texture, quadMaterial>>
pipelineVars == <<sharedVars, alternateVars, spectralVars>>
shaderVars == <<k, flush, P>>

vars == <<pipelineVars, shaderVars>>

(* --------------------------- objects ---------------------------------- *)
\* null, as a render target (gl.setRenderTarget(null): the canvas)
NoTarget == <<0, "null">>
\* fbo.texture: every render target owns one texture
Texture(fbo) == [of |-> fbo]
\* null, as a uniform's value
NullTexture == [of |-> NoTarget]
Gens == 1..MaxMounts

\* Ocean.jsx: the two render targets the useMemo of mount g creates
heightmapFBO1(g) == <<g, "heightmapFBO1">>
heightmapFBO2(g) == <<g, "heightmapFBO2">>
AlternateCreated(g) == {heightmapFBO1(g), heightmapFBO2(g)}

\* App.jsx: the render targets and the materials the useMemos of mount g create
FboNames == {"phillips", "initialSpectrum", "spectrum", "displacement", "normals",
             "pingPong[0]", "pingPong[1]"}
MaterialNames == {"materials.phillips", "materials.initialSpectrum",
                  "materials.timeEvolution"}
SpectralFbo(g, n) == <<g, n>>
SpectralFbos(g) == {SpectralFbo(g, n) : n \in FboNames}
SpectralMaterials(g) == {<<g, n>> : n \in MaterialNames}
SpectralCreated(g) == SpectralFbos(g) \cup SpectralMaterials(g)

\* module-level materials, and the material a new THREE.Mesh(geometry) gets
SimMaterialId == <<0, "simMaterial">>
DefaultMaterial == <<0, "MeshBasicMaterial">>

Resources == UNION {AlternateCreated(g) \cup SpectralCreated(g) : g \in Gens}

\* the useFrame subscribers of a frame, and those that ran in the frame in progress
Subscribers == {"debug", "ocean"}
RanNow == IF ran = Subscribers THEN {} ELSE ran

(* ------------------------------ Init ---------------------------------- *)
\* the state once the modules are loaded: the module-level materials exist,
\* no component is mounted
InitAlternate ==
  /\ mode = "alternate"
  /\ oceanMaterial = [uTime |-> 0, uHeightmap |-> NullTexture]
  /\ debugMaterial = [uHeightmap |-> NullTexture]

InitSpectral ==
  /\ mode = "spectral"
  /\ oceanMaterial = [uTime |-> 0, uDisplacement |-> NullTexture,
                      uNormalMap |-> NullTexture]
  /\ debugMaterial = [uTexture |-> NullTexture]

InitPipeline ==
  /\ InitAlternate \/ InitSpectral
  /\ phase = "init"
  /\ gen = 0
  /\ meshRef = FALSE
  /\ debugRef = FALSE
  /\ renderTarget = NoTarget
  /\ glLog = <<>>
  /\ clock = 0
  /\ ran = {}
  /\ frames = 0
  /\ allocated = {}
  /\ disposeCount = [r \in Resources |-> 0]
  /\ fbos = [read |-> NoTarget, write |-> NoTarget]
  /\ heightmapTexture = NullTexture
  /\ simMaterial = [uTime |-> 0, uPrevState |-> NullTexture]
  /\ pc = "idle"
  /\ time = 0
  /\ swaps = 0
  /\ texture = NullTexture
  /\ quadMaterial = DefaultMaterial

(* --------------------------- Ocean.jsx -------------------------------- *)
\* a ref initialised the other way round
InitialRolesReversed(g) == [read |-> heightmapFBO2(g), write |-> heightmapFBO1(g)]

\* useRef({ read: heightmapFBO1, write: heightmapFBO2 })
InitialRoles(g) == [read |-> heightmapFBO1(g), write |-> heightmapFBO2(g)]

\* The component function runs: the render targets are created, the ref is
\* initialised with FBO1 as read and FBO2 as write, and DebugPlane is rendered
\* with the texture of the buffer that is read at that moment. The guards of
\* the callbacks admit a mesh whose ref is not set.
Mount ==
  /\ mode = "alternate"
  /\ phase \in {"init", "unmounted"}
  /\ gen < MaxMounts
  /\ phase' = "mounted"
  /\ gen' = gen + 1
  /\ \E m \in BOOLEAN : meshRef' = m
  /\ \E d \in BOOLEAN : debugRef' = d
  /\ fbos' = InitialRoles(gen')
  /\ heightmapTexture' = Texture(fbos'.read)
  /\ allocated' = allocated \cup AlternateCreated(gen')
  /\ ran' = {}
  /\ frames' = 0
  /\ swaps' = 0
  /\ UNCHANGED <<mode, simMaterial, oceanMaterial, debugMaterial, renderTarget, glLog,
                 pc, time, clock, disposeCount, spectralVars, shaderVars>>

\* the callback writing through the ocean mesh's material
DebugPlaneFrameOceanMaterial ==
  /\ mode = "alternate"
  /\ phase = "mounted"
  /\ pc = "idle"
  /\ "debug" \notin RanNow
  /\ oceanMaterial' = IF debugRef THEN [oceanMaterial EXCEPT !.uHeightmap = heightmapTexture]
                                  ELSE oceanMaterial
  /\ ran' = RanNow \cup {"debug"}
  /\ UNCHANGED <<mode, phase, gen, meshRef, debugRef, debugMaterial, renderTarget, glLog,
                 clock, frames, allocated, disposeCount, alternateVars, spectralVars,
                 shaderVars>>

\* DebugPlane's frame callback
DebugPlaneFrame ==
  /\ mode = "alternate"
  /\ phase = "mounted"
  /\ pc = "idle"
  /\ "debug" \notin RanNow
  /\ debugMaterial' = IF debugRef THEN [debugMaterial EXCEPT !.uHeightmap = heightmapTexture]
                                  ELSE debugMaterial
  /\ ran' = RanNow \cup {"debug"}
  /\ UNCHANGED <<mode, phase, gen, meshRef, debugRef, oceanMaterial, renderTarget, glLog,
                 clock, frames, allocated, disposeCount, alternateVars, spectralVars, shaderVars>>

\* the pass sampling the buffer it is about to render into
PrevStateFromWrite(f) == Texture(f.write)

\* fbos.current.read.texture, the value given to uPrevState
PrevStateTexture(f) == Texture(f.read)

\* Ocean's frame callback, statement by statement.
\* time = clock.getElapsedTime(); uTime = time; uPrevState = read.texture
BindPrevState ==
  /\ mode = "alternate"
  /\ phase = "mounted"
  /\ pc = "idle"
  /\ "ocean" \notin RanNow
  /\ clock < MaxClock
  /\ clock' = clock + 1
  /\ time' = clock'
  /\ simMaterial' = [uTime |-> time', uPrevState |-> PrevStateTexture(fbos)]
  /\ ran' = RanNow
  /\ pc' = "bound"
  /\ UNCHANGED <<mode, phase, gen, meshRef, debugRef, oceanMaterial, debugMaterial,
                 renderTarget, glLog, frames, allocated, disposeCount,
                 fbos, heightmapTexture, swaps, spectralVars, shaderVars>>

\* gl.setRenderTarget(fbos.current.write)
SetRenderTarget ==
  /\ pc = "bound"
  /\ renderTarget' = fbos.write
  /\ pc' = "target"
  /\ UNCHANGED <<mode, phase, gen, meshRef, debugRef, oceanMaterial, debugMaterial,
                 glLog, clock, ran, frames, allocated, disposeCount,
                 fbos, heightmapTexture, simMaterial, time, swaps, spectralVars, shaderVars>>

\* gl.render(scene, camera): simMesh is drawn with simMaterial into the
\* active render target
Render ==
  /\ pc = "target"
  /\ glLog' = Append(glLog, [material |-> SimMaterialId,
                             input |-> simMaterial.uPrevState,
                             target |-> renderTarget,
                             time |-> simMaterial.uTime])
  /\ pc' = "rendered"
  /\ UNCHANGED <<mode, phase, gen, meshRef, debugRef, oceanMaterial, debugMaterial,
                 renderTarget, clock, ran, frames, allocated, disposeCount,
                 fbos, heightmapTexture, simMaterial, time, swaps, spectralVars, shaderVars>>

\* gl.setRenderTarget(null)
ResetRenderTarget ==
  /\ pc = "rendered"
  /\ renderTarget' = NoTarget
  /\ pc' = "reset"
  /\ UNCHANGED <<mode, phase, gen, meshRef, debugRef, oceanMaterial, debugMaterial,
                 glLog, clock, ran, frames, allocated, disposeCount,
                 fbos, heightmapTexture, simMaterial, time, swaps, spectralVars, shaderVars>>

\* the swap written without the temporary: read = write; write = read
SwappedNoTemp(f) == [read |-> f.write, write |-> f.write]

\* const temp = read; read = write; write = temp
Swapped(f) == [read |-> f.write, write |-> f.read]

\* the swap moved into the  if (meshRef.current)  that follows it
SwapBuffersIfMesh ==
  /\ pc = "reset"
  /\ fbos' = IF meshRef THEN Swapped(fbos) ELSE fbos
  /\ swaps' = IF meshRef THEN swaps + 1 ELSE swaps
  /\ pc' = "swapped"
  /\ UNCHANGED <<sharedVars, heightmapTexture, simMaterial, time, spectralVars, shaderVars>>

SwapBuffers ==
  /\ pc = "reset"
  /\ fbos' = Swapped(fbos)
  /\ swaps' = swaps + 1
  /\ pc' = "swapped"
  /\ UNCHANGED <<sharedVars, heightmapTexture, simMaterial, time, spectralVars, shaderVars>>

\* if (meshRef.current) { uTime = time; uHeightmap = read.texture }
UpdateOceanMaterial ==
  /\ pc = "swapped"
  /\ oceanMaterial' = IF meshRef
                        THEN [uTime |-> time, uHeightmap |-> Texture(fbos.read)]
                        ELSE oceanMaterial
  /\ frames' = frames + 1
  /\ ran' = ran \cup {"ocean"}
  /\ pc' = "idle"
  /\ UNCHANGED <<mode, phase, gen, meshRef, debugRef, debugMaterial, renderTarget,
                 glLog, clock, allocated, disposeCount,
                 fbos, heightmapTexture, simMaterial, time, swaps, spectralVars, shaderVars>>

\* The component is unmounted between two frames. Ocean.jsx registers no
\* cleanup: nothing is disposed; React clears the refs.
Unmount ==
  /\ mode = "alternate"
  /\ phase = "mounted"
  /\ pc = "idle"
  /\ RanNow = {}
  /\ phase' = "unmounted"
  /\ meshRef' = FALSE
  /\ debugRef' = FALSE
  /\ ran' = {}
  /\ UNCHANGED <<mode, gen, oceanMaterial, debugMaterial, renderTarget, glLog, clock,
                 frames, allocated, disposeCount, alternateVars, spectralVars, shaderVars>>

(* ----------------------------- App.jsx -------------------------------- *)
\* The component function runs: seven render targets and three materials are
\* created, the compute quad gets the default material, and DebugView is
\* rendered with the texture of fbos.phillips.
MountSpectral ==
  /\ mode = "spectral"
  /\ phase \in {"init", "unmounted"}
  /\ gen < MaxMounts
  /\ phase' = "mounted"
  /\ gen' = gen + 1
  /\ \E m \in BOOLEAN : meshRef' = m
  /\ \E d \in BOOLEAN : debugRef' = d
  /\ allocated' = allocated \cup SpectralCreated(gen')
  /\ quadMaterial' = DefaultMaterial
  /\ texture' = Texture(SpectralFbo(gen', "phillips"))
  /\ ran' = {}
  /\ frames' = 0
  /\ UNCHANGED <<mode, oceanMaterial, debugMaterial, renderTarget, glLog, clock,
                 disposeCount, alternateVars, shaderVars>>

\* DebugView's frame callback
DebugViewFrame ==
  /\ mode = "spectral"
  /\ phase = "mounted"
  /\ "debug" \notin RanNow
  /\ debugMaterial' = IF debugRef THEN [debugMaterial EXCEPT !.uTexture = texture]
                                  ELSE debugMaterial
  /\ ran' = RanNow \cup {"debug"}
  /\ UNCHANGED <<mode, phase, gen, meshRef, debugRef, oceanMaterial, renderTarget, glLog,
                 clock, frames, allocated, disposeCount, alternateVars, spectralVars, shaderVars>>

\* Ocean's frame callback: the Phillips pass into fbos.phillips, the render
\* target reset, and the ocean material bound to the Phillips texture.
SpectralFrame ==
  /\ mode = "spectral"
  /\ phase = "mounted"
  /\ "ocean" \notin RanNow
  /\ clock < MaxClock
  /\ clock' = clock + 1
  /\ quadMaterial' = <<gen, "materials.phillips">>
  /\ glLog' = Append(glLog, [material |-> quadMaterial',
                             input |-> NullTexture,
                             target |-> SpectralFbo(gen, "phillips"),
                             time |-> clock'])
  /\ renderTarget' = NoTarget
  /\ oceanMaterial' =
       IF meshRef
         THEN [oceanMaterial EXCEPT
                 !.uTime = clock',
                 !.uDisplacement = Texture(SpectralFbo(gen, "phillips"))]
         ELSE oceanMaterial
  /\ frames' = frames + 1
  /\ ran' = RanNow \cup {"ocean"}
  /\ UNCHANGED <<mode, phase, gen, meshRef, debugRef, debugMaterial, allocated,
                 disposeCount, alternateVars, texture, shaderVars>>

\* The effect's cleanup at unmount: materials.cleanup() disposes the three
\* materials, then every render target of fbos is disposed, the two of the
\* pingPong array included.
UnmountSpectral ==
  /\ mode = "spectral"
  /\ phase = "mounted"
  /\ RanNow = {}
  /\ phase' = "unmounted"
  /\ meshRef' = FALSE
  /\ debugRef' = FALSE
  /\ ran' = {}
  /\ disposeCount' = [r \in Resources |->
                        IF r \in SpectralCreated(gen) THEN disposeCount[r] + 1
                                                      ELSE disposeCount[r]]
  /\ UNCHANGED <<mode, gen, oceanMaterial, debugMaterial, renderTarget, glLog, clock,
                 frames, allocated, alternateVars, spectralVars, shaderVars>>

(* --------------------- phillips (GLSL, App.jsx) ----------------------- *)
\* Wave vectors are integer pairs in units of 1/Scale = 0.00005, so that
\* lengths on both sides of the threshold 0.0001 exist. A float is kept as
\* its class: "zero" (exactly 0), "pos" (the product or quotient of positive
\* factors: positive, or +0 where the float rounds it down, never below 0),
\* "neg", "inf" and "nan".
Scale == 2 * 10000
\* 0.0001, in grid units
Epsilon == Scale \div 10000
\* the uniforms' values: WIND_SPEED, WIND_DIRECTION before normalize(), GRAVITY
\* (in hundredths) and uAlpha (in ten-thousandths)
uWindSpeed == 10
uWindDirection == <<1, 1>>
uGravityX100 == 981
uAlphaX10000 == 81
\* 1 / L = uGravity / uWindSpeed^2, in grid units
InvL == (uGravityX100 * Scale) \div (100 * uWindSpeed * uWindSpeed)

NotRun == [value |-> "none", normalized |-> FALSE, divided |-> FALSE,
           divisor |-> "none"]

Sign(i) == IF i > 0 THEN "pos" ELSE IF i < 0 THEN "neg" ELSE "zero"

Mul(a, b) ==
  IF a = "nan" \/ b = "nan" THEN "nan"
  ELSE IF {a, b} = {"zero", "inf"} THEN "nan"
  ELSE IF a = "zero" \/ b = "zero" THEN "zero"
  ELSE IF a = "inf" \/ b = "inf"
         THEN (IF (a = "neg") # (b = "neg") THEN "neg" ELSE "inf")
  ELSE IF a = b THEN "pos" ELSE "neg"

Div(a, b) ==
  IF a = "nan" \/ b = "nan" THEN "nan"
  ELSE IF b = "zero" THEN (IF a = "zero" THEN "nan" ELSE IF a = "neg" THEN "neg" ELSE "inf")
  ELSE IF b = "inf" THEN (IF a = "inf" THEN "nan" ELSE "zero")
  ELSE Mul(a, b)

\* exp(-(num/den)), num >= 0 and den > 0: positive, and exactly 0 once the
\* result is below the float range (below about e^-104 on every GPU, below
\* e^-87 on one that flushes subnormal results)
Exp(num, den, fl) ==
  IF den = 0 THEN "zero"
  ELSE IF num > 104 * den THEN "zero"
  ELSE IF num < 87 * den THEN "pos"
  ELSE IF fl THEN "zero" ELSE "pos"

\* dot(normalize(kv), uWindDirection): normalize(kv) is kv / length(kv), 0/0
\* for the zero vector; the positive scale factors leave the sign of the
\* dot product alone
DotNormalized(kv, w) ==
  IF kv[1] = 0 /\ kv[2] = 0 THEN "nan" ELSE Sign(kv[1] * w[1] + kv[2] * w[2])

\* phillips without its first  if
phillipsUnguarded(kv, fl) ==
  LET kLength2 == kv[1] * kv[1] + kv[2] * kv[2]
      kDotW == DotNormalized(kv, uWindDirection)
      damping == Exp(kLength2 \div 1000000, InvL * InvL, fl)
      suppress == Exp(InvL * InvL, kLength2, fl)
      k4 == Sign(kLength2)
      numerator == Mul(Mul(Mul(Sign(uAlphaX10000), suppress),
                           Mul(kDotW, kDotW)), damping)
  IN  [value |-> Div(numerator, k4), normalized |-> TRUE,
       divided |-> TRUE, divisor |-> k4]

phillips(kv, fl) ==
  LET kLength2 == kv[1] * kv[1] + kv[2] * kv[2]
  IN  IF kLength2 < Epsilon * Epsilon
        THEN [value |-> "zero", normalized |-> FALSE, divided |-> FALSE,
              divisor |-> "none"]
        ELSE LET kDotW == DotNormalized(kv, uWindDirection)
                 damping == Exp(kLength2 \div 1000000, InvL * InvL, fl)
                 suppress == Exp(InvL * InvL, kLength2, fl)
                 k4 == Sign(kLength2)
                 numerator == Mul(Mul(Mul(Sign(uAlphaX10000), suppress),
                                      Mul(kDotW, kDotW)), damping)
             IN  [value |-> Div(numerator, k4), normalized |-> TRUE,
                  divided |-> TRUE, divisor |-> k4]

\* the wave vectors tried
KRange == (-MaxK .. MaxK)
            \cup {CoarseStep * i : i \in 1 .. MaxCoarse}
            \cup {-(CoarseStep * i) : i \in 1 .. MaxCoarse}

\* main(): float P = phillips(k)
PhillipsMain ==
  /\ P = NotRun
  /\ P' = phillips(k, flush)
  /\ UNCHANGED <<k, flush, pipelineVars>>

(* ------------------------- specification ------------------------------ *)
Init ==
  /\ InitPipeline
  /\ k = <<0, 0>>
  /\ flush = FALSE
  /\ P = NotRun

Next ==
  \/ Mount
  \/ DebugPlaneFrame
  \/ BindPrevState
  \/ SetRenderTarget
  \/ Render
  \/ ResetRenderTarget
  \/ SwapBuffers
  \/ UpdateOceanMaterial
  \/ Unmount
  \/ MountSpectral
  \/ DebugViewFrame
  \/ SpectralFrame
  \/ UnmountSpectral

Spec == Init /\ [][Next]_vars

\* one invocation of the Phillips fragment shader, for every wave vector of
\* the grid
InitPhillips ==
  /\ InitPipeline
  /\ mode = "spectral"
  /\ k \in KRange \X KRange
  /\ flush \in BOOLEAN
  /\ P = NotRun

NextPhillips == PhillipsMain

SpecPhillips == InitPhillips /\ [][NextPhillips]_vars

(* ------------------------------ claims -------------------------------- *)
Alternate == mode = "alternate"
Spectral == mode = "spectral"
\* a frame callback of Ocean is not in progress
Idle == pc = "idle"
\* both subscribers ran: the frame is complete
FrameComplete == phase = "mounted" /\ Idle /\ ran = Subscribers
\* the passes issued for the instance of mount g
PassesOf(g) == {i \in 1 .. Len(glLog) : glLog[i].target[1] = g}

\* C1: in the alternate mode, after an even number of executed frame
\* callbacks read is heightmapFBO1 and write is heightmapFBO2, as before the
\* first frame; after an odd number the two are exchanged.
C1_RolesByParity ==
  (Alternate /\ phase = "mounted" /\ Idle) =>
    /\ frames % 2 = 0 => fbos = [read |-> heightmapFBO1(gen), write |-> heightmapFBO2(gen)]
    /\ frames % 2 = 1 => fbos = [read |-> heightmapFBO2(gen), write |-> heightmapFBO1(gen)]

C1_Witness ==
  /\ Alternate /\ phase = "mounted" /\ Idle
  /\ frames = 2
  /\ fbos.read = heightmapFBO1(gen)

\* one target is read, the other write, both of the current instance
C2_RolesPaired ==
  (Alternate /\ phase # "init") =>
    /\ fbos.read # fbos.write
    /\ {fbos.read, fbos.write} = AlternateCreated(gen)

\* a step that changes fbos.current is the swap, taken after the pass of the
\* same callback was issued and the render target reset, or the mount that
\* creates the ref
C2_ChangeOnlyBySwap ==
  (fbos' # fbos) =>
    \/ /\ pc = "reset" /\ pc' = "swapped"
       /\ renderTarget = NoTarget
       /\ Len(glLog) > 0
       /\ glLog[Len(glLog)].target = fbos.write
       /\ glLog[Len(glLog)].time = time
       /\ fbos' = [read |-> fbos.write, write |-> fbos.read]
    \/ phase # "mounted" /\ phase' = "mounted"

\* C2: at every instant one of the two render targets is read and the other
\* is write, and the roles change only by the swap that follows the completed
\* pass of a frame (the render target reset, the last pass issued into the
\* buffer that was write), never before or during the pass.
C2_ExclusiveRoles == [][C2_RolesPaired' /\ C2_ChangeOnlyBySwap]_vars

C2_Witness ==
  /\ Alternate /\ pc = "swapped" /\ frames >= 1
  /\ fbos.read = heightmapFBO2(gen)

\* C3: every pass issued by gl.render samples a texture of a render target
\* other than the one it renders into.
C3_NoReadOfWriteTarget ==
  Alternate =>
    /\ \A i \in 1 .. Len(glLog) : glLog[i].input.of # glLog[i].target
    /\ pc = "target" => simMaterial.uPrevState.of # renderTarget

C3_Witness ==
  /\ Alternate /\ pc = "rendered" /\ frames >= 1
  /\ glLog[Len(glLog)].target = heightmapFBO1(gen)
  /\ glLog[Len(glLog)].input = Texture(heightmapFBO2(gen))

\* C4: the roles swap exactly once in every frame callback, with or without
\* the mesh, and from the second frame of an instance on the pass samples the
\* buffer the frame before rendered into, which is the read buffer at the end
\* of that frame.
C4_SwapEveryFrame ==
  Alternate =>
    /\ swaps = frames + (IF pc = "swapped" THEN 1 ELSE 0)
    /\ \A i \in 2 .. Len(glLog) :
         glLog[i].target[1] = glLog[i - 1].target[1] =>
           glLog[i].input = Texture(glLog[i - 1].target)
    /\ (phase = "mounted" /\ Idle /\ frames >= 1) =>
         fbos.read = glLog[Len(glLog)].target

C4_Witness ==
  /\ Alternate /\ phase = "mounted" /\ Idle
  /\ ~meshRef
  /\ frames = 3 /\ swaps = 3
  /\ Cardinality(PassesOf(gen)) = 3

\* C5: every render target and material a component created is disposed
\* exactly once, at unmount and not before, none is the render target once
\* disposed, and none is left undisposed after the unmount.
C5_DisposedExactlyOnce ==
  /\ \A r \in Resources : disposeCount[r] <= 1
  /\ \A r \in Resources : disposeCount[r] = 1 => r \in allocated
  /\ phase = "mounted" =>
       \A r \in AlternateCreated(gen) \cup SpectralCreated(gen) : disposeCount[r] = 0
  /\ renderTarget # NoTarget => disposeCount[renderTarget] = 0
  /\ phase = "unmounted" => \A r \in allocated : disposeCount[r] = 1

PhillipsPasses(g) ==
  Cardinality({i \in 1 .. Len(glLog) : glLog[i].target = SpectralFbo(g, "phillips")})

\* C6: in the spectral pipeline the Phillips texture is rendered once, and
\* never again however many frames run (the wind uniforms never change).
C6_PhillipsRenderedOnce ==
  (Spectral /\ phase = "mounted" /\ frames >= 1) => PhillipsPasses(gen) = 1

WrittenAt(t) == {glLog[i].target : i \in {j \in 1 .. Len(glLog) : glLog[j].time = t}}

\* C7: in the spectral pipeline every frame writes fbos.displacement and
\* fbos.normals, and with the mesh mounted the ocean material's uDisplacement
\* and uNormalMap are their textures at the end of the frame.
C7_SurfaceMapsBound ==
  (Spectral /\ phase = "mounted" /\ "ocean" \in ran) =>
    /\ SpectralFbo(gen, "displacement") \in WrittenAt(clock)
    /\ SpectralFbo(gen, "normals") \in WrittenAt(clock)
    /\ meshRef =>
         /\ oceanMaterial.uDisplacement = Texture(SpectralFbo(gen, "displacement"))
         /\ oceanMaterial.uNormalMap = Texture(SpectralFbo(gen, "normals"))

BelowEpsilon(kv) == kv[1] * kv[1] + kv[2] * kv[2] < Epsilon * Epsilon

\* C8: below the threshold phillips returns exactly 0 and evaluates neither
\* normalize(k) nor the division; at or above it the value is never negative
\* (nor NaN or infinite), and no division by zero is evaluated.
C8_PhillipsGuarded ==
  P # NotRun =>
    /\ BelowEpsilon(k) => P.value = "zero" /\ ~P.normalized /\ ~P.divided
    /\ ~BelowEpsilon(k) => P.value \in {"zero", "pos"}
    /\ P.divided => P.divisor # "zero"

C8_Witness ==
  /\ P # NotRun
  /\ k = <<1, -1>>
  /\ BelowEpsilon(k)
  /\ P.value = "zero"

DebugCallback == ran' # ran /\ ran' = RanNow \cup {"debug"}

\* C9: a debug callback (DebugPlane, DebugView) changes the debug material
\* only: the roles, the simulation and ocean uniforms, the render target, the
\* passes issued and the resources stay as they are, wherever the callback
\* falls between the frame callbacks of Ocean.
C9_DebugReadOnly ==
  [][DebugCallback =>
       /\ UNCHANGED <<fbos, simMaterial, oceanMaterial, renderTarget, glLog,
                      quadMaterial, allocated, disposeCount, swaps, frames>>
       /\ DOMAIN debugMaterial' = DOMAIN debugMaterial]_vars

C9_Witness ==
  /\ Alternate /\ debugRef
  /\ ran = {"debug"}
  /\ frames >= 1
  /\ debugMaterial.uHeightmap = heightmapTexture
  /\ heightmapTexture # NullTexture

\* C10: after every frame, with the mesh and the debug plane mounted, the
\* debug plane shows the texture bound to the ocean mesh, the one of the read
\* buffer, and never the one of the write buffer.
C10_DebugShowsRead ==
  (Alternate /\ FrameComplete /\ meshRef /\ debugRef) =>
    /\ debugMaterial.uHeightmap = oceanMaterial.uHeightmap
    /\ debugMaterial.uHeightmap = Texture(fbos.read)
    /\ debugMaterial.uHeightmap # Texture(fbos.write)
====
